---------------------------- MODULE Spec2Model ----------------------------
(***************************************************************************)
(* A model of the search orchestration engine of                           *)
(* Automated-AI-Web-Researcher-Ollama:                                     *)
(*   - SearchManager (src/search_manager.py): provider set, sticky         *)
(*     current provider, fallback and result normalization;                *)
(*   - EnhancedSelfImprovingSearch (src/Self_Improving_Search.py): the     *)
(*     retrieval loop search_and_improve and the steps it calls;           *)
(*   - LLMWrapper.generate (src/llm_wrapper.py): the generation gateway.   *)
(*                                                                         *)
(* Python values are modelled as follows.  A mapping is a TLA+ function    *)
(* from key names to naturals (text is abstracted to an identifier or a    *)
(* length).  A string whose emptiness or whitespace matters is a sequence  *)
(* of characters.  A raised exception is an explicit outcome of the call   *)
(* that raises it.                                                         *)
(***************************************************************************)
EXTENDS Integers, Sequences, FiniteSets, TLC

(***************************************************************************)
(* Bounds of the model.                                                    *)
(***************************************************************************)
\* largest attempt budget handed to the constructor
MaxAttempts == 2
\* number of search_and_improve requests served by one engine
MaxCalls == 1
\* longest raw text a generation backend produces
MaxTextLen == 2

(***************************************************************************)
(* Configuration (src/system_config.py).                                   *)
(***************************************************************************)
default_provider == "duckduckgo"

fallback_order == <<"exa", "bing", "brave", "tavily", "duckduckgo">>

ProviderIds == {fallback_order[i] : i \in 1..Len(fallback_order)}

\* SEARCH_CONFIG["rate_limiting"]["cooldown_period"]
search_cooldown_period == 60

\* RESEARCH_CONFIG["rate_limiting"]["requests_per_minute"]
requests_per_minute == 60

\* the registry of SearchProviderFactory
FactoryProviders == {"bing", "brave", "exa", "tavily"}

(***************************************************************************)
(* Python helpers.                                                         *)
(***************************************************************************)
Min(a, b) == IF a < b THEN a ELSE b

\* dict.get(key, default)
Get(r, k, d) == IF k \in DOMAIN r THEN r[k] ELSE d

\* an entry of a result list that is no mapping (None, a string, ...):
\* calling .get on it raises
NonMappingItem == [nonmapping |-> 1]

IsMapping(r) == "nonmapping" \notin DOMAIN r

\* [x for x in s if x in keep]
RECURSIVE FilterSeq(_, _)
FilterSeq(s, keep) ==
    IF s = << >> THEN << >>
    ELSE (IF Head(s) \in keep THEN <<Head(s)>> ELSE << >>)
         \o FilterSeq(Tail(s), keep)

(***************************************************************************)
(* Raw provider payloads.  What provider.search() hands back is one of:    *)
(* an exception, a value that is no mapping, or a mapping.  A mapping is   *)
(* described by the keys the normalizer looks at.  `nested` says that the  *)
(* value under 'results' is itself a mapping {'results': [...]} instead of *)
(* a list.  `items` sits under 'articles' when has_articles, and under     *)
(* 'results' otherwise.  Text values are identifiers >= 1 (0 is the empty  *)
(* string or None), content is its length, a score is in tenths.           *)
(***************************************************************************)
RawPayload(kind, has_error, has_answer, has_articles, nested, items) ==
    [kind |-> kind, has_error |-> has_error, has_answer |-> has_answer,
     has_articles |-> has_articles, nested |-> nested, items |-> items]

\* a result item carrying every key some provider variant reads
FullItem(u) ==
    [title |-> u, url |-> u, link |-> u, content |-> 600, description |-> 600,
     text |-> 600, snippet |-> 600, score |-> 7, relevance_score |-> 7,
     published_date |-> u]

\* a result item with nothing but its url
BareItem(u) == [url |-> u]

RaisePayload == RawPayload("raise", FALSE, FALSE, FALSE, FALSE, << >>)
NonMappingPayload == RawPayload("nonmapping", FALSE, FALSE, FALSE, FALSE, << >>)
ErrorPayload == RawPayload("mapping", TRUE, FALSE, FALSE, FALSE, <<FullItem(1)>>)
EmptyPayload == RawPayload("mapping", FALSE, FALSE, FALSE, FALSE, << >>)
TwoPayload ==
    RawPayload("mapping", FALSE, TRUE, FALSE, FALSE, <<FullItem(1), BareItem(2)>>)
ArticlesPayload ==
    RawPayload("mapping", FALSE, FALSE, TRUE, FALSE, <<BareItem(2), FullItem(1)>>)
NestedPayload ==
    RawPayload("mapping", FALSE, TRUE, FALSE, TRUE, <<FullItem(1), FullItem(2)>>)
BadItemPayload ==
    RawPayload("mapping", FALSE, FALSE, FALSE, FALSE, <<FullItem(1), NonMappingItem>>)

RawPayloads ==
    {RaisePayload, NonMappingPayload, ErrorPayload, EmptyPayload, TwoPayload,
     ArticlesPayload, NestedPayload, BadItemPayload}

(***************************************************************************)
(* SearchManager._normalize_results                                        *)
(***************************************************************************)
\* r.get(...)[:500]
ContentLimit == 500

\* the score of the variants whose backend supplies none (1.0)
FixedScore == 10

Response(success, error, results, provider, answer, nested) ==
    [success |-> success, error |-> error, results |-> results,
     provider |-> provider, answer |-> answer, nested |-> nested]

\* one element of the list comprehension of a provider variant
NormalizedItem(r, contentKey, scoreKey, urlKey, scored, dated) ==
    [title |-> Get(r, "title", 0),
     url |-> Get(r, urlKey, 0),
     content |-> Min(Get(r, contentKey, 0), ContentLimit),
     score |-> IF scored THEN Get(r, scoreKey, 0) ELSE FixedScore,
     published_date |-> IF dated THEN Get(r, "published_date", 0) ELSE 0]

NormalizeItem(r, provider) ==
    CASE provider = "tavily" ->
           NormalizedItem(r, "content", "score", "url", TRUE, TRUE)
      [] provider = "brave" ->
           NormalizedItem(r, "description", "relevance_score", "url", TRUE, TRUE)
      [] provider = "bing" ->
           NormalizedItem(r, "content", "score", "url", FALSE, FALSE)
      [] provider = "exa" ->
           NormalizedItem(r, "text", "relevance_score", "url", TRUE, TRUE)
      [] OTHER ->
           NormalizedItem(r, "snippet", "score", "link", FALSE, FALSE)

RECURSIVE NormalizeItems(_, _)
NormalizeItems(items, provider) ==
    IF items = << >> THEN << >>
    ELSE <<NormalizeItem(Head(items), provider)>>
         \o NormalizeItems(Tail(items), provider)

\* the variant copies the list as it is (tavily without 'articles')
PassesThrough(raw, provider) == provider = "tavily" /\ ~raw.has_articles

\* the list the variant's comprehension walks: 'articles' for tavily news,
\* results.get('results', []) for the keyed variants; the duckduckgo
\* variant replaces the mapping by [] first, an unknown id walks nothing
ComprehensionItems(raw, provider) ==
    IF provider = "tavily" THEN raw.items
    ELSE IF provider \in {"brave", "bing", "exa"} /\ ~raw.has_articles
    THEN raw.items
    ELSE << >>

\* the comprehension raises: r.get on an entry that is no mapping, or on
\* the keys of a nested mapping
NormalizeRaises(raw, provider) ==
    /\ raw.kind = "mapping"
    /\ ~raw.has_error
    /\ ~PassesThrough(raw, provider)
    /\ \/ raw.nested /\ ComprehensionItems(raw, provider) # << >>
       \/ \E i \in 1..Len(ComprehensionItems(raw, provider)) :
              ~IsMapping(ComprehensionItems(raw, provider)[i])

\* faulty variant: the test for 'error' of lines 77-83 is missing
_normalize_results_ErrorIgnored(raw, provider) ==
    IF raw.kind # "mapping"
    THEN Response(FALSE, "invalid_format", << >>, provider, 0, FALSE)
    ELSE Response(TRUE, "none", << >>, provider, 0, FALSE)

_normalize_results(raw, provider) ==
    IF raw.kind # "mapping"
    THEN Response(FALSE, "invalid_format", << >>, provider, 0, FALSE)
    ELSE IF raw.has_error
    THEN Response(FALSE, "provider_error", << >>, provider, 0, FALSE)
    ELSE Response(TRUE, "none",
                  IF PassesThrough(raw, provider) THEN raw.items
                  ELSE NormalizeItems(ComprehensionItems(raw, provider), provider),
                  provider,
                  IF raw.has_answer THEN 1 ELSE 0,
                  PassesThrough(raw, provider) /\ raw.nested)

(***************************************************************************)
(* State.                                                                  *)
(***************************************************************************)
VARIABLES
    \* SearchManager
    providers,          \* self.providers: names of the configured providers
    current_provider,   \* self.current_provider
    mpc,                \* where search() stands: idle, current, fallback,
                        \* returned, raised
    tried_providers,    \* tried_providers of the running search()
    fi,                 \* position of the for loop in fallback_order
    mres,               \* the response search() returns
    \* EnhancedSelfImprovingSearch
    max_attempts,       \* self.max_attempts
    request_count,      \* self.request_count
    pc,                 \* where search_and_improve stands
    user_query,         \* the argument of search_and_improve
    attempt,            \* attempt
    search_results,     \* search_results of the attempt
    retry,              \* loop counter of select_relevant_pages and of
                        \* generate_final_answer
    urls,               \* selected urls still to be scraped
    scraped_content,    \* keys of scraped_content
    ai_answer,          \* ai_answer handed to generate_final_answer
    result,             \* the string search_and_improve returned
    \* history (read by the properties only)
    calls,              \* provider calls of the running search(): provider
                        \* and whether its result normalized to success
    last_raw,           \* payload of the latest provider call
    pauses,             \* sleeps of the running search(), in seconds
    cp_entry,           \* current_provider when search() was entered
    ncalls,             \* search_and_improve requests so far
    searches,           \* perform_search calls of the running request
    steps,              \* kinds of step the running request has taken
    raised,             \* the latest step of the request raised inside
                        \* the try block of the attempt
    terminal,           \* how the running request ended
    fetched,            \* urls handed to get_web_content, each with the
                        \* answer can_fetch gave for it just before
    happy,              \* every collaborator answered as the happy path asks
    all_empty,          \* every search of the request returned no results
    last_decision,      \* decision token of the latest evaluation
    \* operations called on their own
    fn,                 \* the latest application of a function of the
                        \* program: its name, its arguments, what it gave
    callers,            \* callers of perform_search on one engine: where
                        \* each stands in the rate-limit check, its locals
    admitted,           \* outbound searches issued in the running window
    last_request_time,  \* self.last_request_time, as its age: "recent"
                        \* (less than the cooldown period ago) or "old"
    threads,            \* threads inside search() of one SearchManager:
                        \* where each stands, its locals
    arxiv               \* an ArXivSearchProvider and the clock around it:
                        \* where search() stands, the ages of
                        \* self.last_request_time and of the latest
                        \* request, the requests issued so far

mvars == <<providers, current_provider, mpc, tried_providers, fi, mres,
           calls, last_raw, pauses, cp_entry>>

\* the locals of one attempt
locals == <<search_results, retry, urls, scraped_content, ai_answer>>

evars == <<max_attempts, request_count, pc, user_query, attempt, locals,
           result, ncalls, searches, steps, raised, terminal, fetched, happy,
           all_empty, last_decision>>

\* state of the operations called on their own
xvars == <<fn, callers, admitted, last_request_time, threads, arxiv>>

vars == <<mvars, evars, xvars>>

(***************************************************************************)
(* SearchManager.__init__ and _initialize_providers.  `usable` are the     *)
(* provider names whose construction succeeds and whose is_configured()    *)
(* is true; get_provider raises ValueError for a name the factory does     *)
(* not know, and the loop goes on with the next name.                      *)
(***************************************************************************)
_initialize_providers(usable) ==
    {fallback_order[i] : i \in {j \in 1..Len(fallback_order) :
        fallback_order[j] \in FactoryProviders /\ fallback_order[j] \in usable}}

NoResponse == Response(FALSE, "none", << >>, "None", 0, FALSE)

AllProvidersFailed ==
    Response(FALSE, "all_providers_failed", << >>, "None", 0, FALSE)

(***************************************************************************)
(* SearchManager.search                                                    *)
(***************************************************************************)
\* the provider call and the normalization of its result, both inside the
\* try block, end with normalized_results['success'] true
CallSucceeded(raw, provider) ==
    /\ raw.kind # "raise"
    /\ ~NormalizeRaises(raw, provider)
    /\ _normalize_results(raw, provider).success

\* faulty variant: the assignment of line 192 is missing
CurrentProviderAfter_Kept(ok, provider_name, current) == current

\* faulty variant: the assignment of line 192 comes before the test of
\* normalized_results['success']
CurrentProviderAfter_Early(ok, provider_name, current) == provider_name

\* lines 191-192: the current provider after a call of the fallback loop
CurrentProviderAfter(ok, provider_name, current) ==
    IF ok THEN provider_name ELSE current

\* faulty variant: the test of line 175 leaves out tried_providers
Skipped_IgnoresTried(provider_name, configured, tried) ==
    provider_name \notin configured

\* line 175: a provider of the fallback order is passed over
Skipped(provider_name, configured, tried) ==
    provider_name \notin configured \/ provider_name \in tried

\* faulty variant: the pause is divided by the number of the other
\* providers, len(self.providers) - 1
PauseRaises_Others(configured) == Cardinality(configured) <= 1

\* line 203: the pause before the next provider; the division raises
\* ZeroDivisionError for an empty provider mapping
PauseRaises(configured) == Cardinality(configured) = 0

PauseLength(configured) == search_cooldown_period \div Cardinality(configured)

\* search() is entered (from perform_search)
SearchEnter ==
    /\ mpc' = "current"
    /\ tried_providers' = {}
    /\ fi' = 1
    /\ calls' = << >>
    /\ pauses' = << >>
    /\ cp_entry' = current_provider
    /\ mres' = NoResponse
    /\ UNCHANGED <<providers, current_provider, last_raw>>

\* faulty variant: a success of the current provider does not end search()
AfterCurrent_FallsThrough(ok) == "fallback"

\* lines 162-171: search() returns the current provider's response when it
\* is a success, and goes on to the fallback order when it is not
AfterCurrent(ok) == IF ok THEN "returned" ELSE "fallback"

\* lines 153-171: the current provider first
SearchCurrent ==
    /\ mpc = "current"
    /\ IF current_provider \in providers
       THEN \E raw \in RawPayloads :
              LET ok == CallSucceeded(raw, current_provider) IN
              /\ calls' = Append(calls, [provider |-> current_provider, ok |-> ok])
              /\ last_raw' = raw
              /\ IF ok
                 THEN /\ mres' = _normalize_results(raw, current_provider)
                      /\ mpc' = AfterCurrent(ok)
                      /\ UNCHANGED tried_providers
                 ELSE /\ tried_providers' = tried_providers \cup {current_provider}
                      /\ mpc' = AfterCurrent(ok)
                      /\ UNCHANGED mres
       ELSE /\ mpc' = "fallback"
            /\ UNCHANGED <<calls, last_raw, mres, tried_providers>>
    /\ UNCHANGED <<providers, current_provider, fi, pauses, cp_entry, evars>>
    /\ UNCHANGED xvars

\* lines 174-203: one iteration of the loop over fallback_order
SearchFallback ==
    /\ mpc = "fallback"
    /\ fi <= Len(fallback_order)
    /\ LET provider_name == fallback_order[fi] IN
       IF Skipped(provider_name, providers, tried_providers)
       THEN /\ fi' = fi + 1
            /\ UNCHANGED <<current_provider, mpc, tried_providers, mres,
                           calls, last_raw, pauses>>
       ELSE \E raw \in RawPayloads :
              LET ok == CallSucceeded(raw, provider_name) IN
              /\ tried_providers' = tried_providers \cup {provider_name}
              /\ calls' = Append(calls, [provider |-> provider_name, ok |-> ok])
              /\ last_raw' = raw
              /\ current_provider' =
                    CurrentProviderAfter(ok, provider_name, current_provider)
              /\ IF ok
                 THEN /\ mres' = _normalize_results(raw, provider_name)
                      /\ mpc' = "returned"
                      /\ UNCHANGED <<fi, pauses>>
                 ELSE /\ IF PauseRaises(providers)
                         THEN mpc' = "raised" /\ UNCHANGED pauses
                         ELSE /\ pauses' = Append(pauses, PauseLength(providers))
                              /\ UNCHANGED mpc
                      /\ fi' = fi + 1
                      /\ UNCHANGED mres
    /\ UNCHANGED <<providers, cp_entry, evars>>
    /\ UNCHANGED xvars

\* lines 205-211: every provider was tried
SearchExhausted ==
    /\ mpc = "fallback"
    /\ fi > Len(fallback_order)
    /\ mres' = AllProvidersFailed
    /\ mpc' = "returned"
    /\ UNCHANGED <<providers, current_provider, tried_providers, fi, calls,
                   last_raw, pauses, cp_entry, evars>>
    /\ UNCHANGED xvars

(***************************************************************************)
(* Text.  A text is a sequence of characters: blanks, a letter, and the    *)
(* digits an answer to the selection prompt may name.                      *)
(***************************************************************************)
Digits == {"0", "1", "2", "3"}

DigitValue(c) ==
    CASE c = "0" -> 0 [] c = "1" -> 1 [] c = "2" -> 2 [] c = "3" -> 3

\* every text over `chars` of at most MaxTextLen characters
RawTexts(chars) == UNION {[1..n -> chars] : n \in 0..MaxTextLen}

RECURSIVE LStrip(_)
LStrip(s) == IF s # << >> /\ Head(s) = " " THEN LStrip(Tail(s)) ELSE s

RECURSIVE RStrip(_)
RStrip(s) ==
    IF s # << >> /\ s[Len(s)] = " " THEN RStrip(SubSeq(s, 1, Len(s) - 1)) ELSE s

\* str.strip()
Strip(s) == RStrip(LStrip(s))

\* faulty variant: the backend's text is handed back as it came
generate_Unstripped(backend_text) == backend_text

(***************************************************************************)
(* LLMWrapper.generate: every backend branch returns the stripped text of  *)
(* the backend's answer, or raises.                                        *)
(***************************************************************************)
generate(backend_text) == Strip(backend_text)

LLMOutcomes(chars) ==
    {[raised |-> TRUE, text |-> << >>]}
    \cup {[raised |-> FALSE, text |-> generate(t)] : t \in RawTexts(chars)}

\* what the gateway gives for the prompt of select_relevant_pages
SelectionOutcomes == LLMOutcomes(Digits \cup {"a"})

\* what the gateway gives for the prompts of generate_final_answer and
\* synthesize_final_answer
AnswerOutcomes == LLMOutcomes({" ", "a"})

(***************************************************************************)
(* Collaborators of the retrieval loop.                                    *)
(***************************************************************************)
\* can_fetch(url): True, False, or an exception
CanFetchOutcomes == {"allow", "deny", "raise"}

\* get_web_content([url]): a mapping with content, nothing, or an exception
FetchOutcomes == {"content", "empty", "raise"}

\* evaluate_scraped_content, whose definition is not among the source
\* files: it asks the generation gateway for an evaluation and a decision
\* token and hands both back, or raises when the gateway does
DecisionOutcomes == {"answer", "refine", "other", "raise"}

Urls == {0, 1, 2}

(***************************************************************************)
(* EnhancedSelfImprovingSearch                                             *)
(***************************************************************************)
\* max_retries of select_relevant_pages
select_max_retries == 3

\* max_retries of generate_final_answer
answer_max_retries == 3

\* response_text[:40]
SelectPrefix == 40

\* the allowed urls kept by the fallback of select_relevant_pages ([:2])
FallbackUrls == 2

\* the fixed strings of generate_final_answer and synthesize_final_answer
AnswerApology == <<"I apologize", "no satisfactory answer">>

FallbackApology == <<"I apologize", "after multiple attempts">>

\* faulty variant: the except clause does not count the attempt
AttemptBoundary_Uncounted(att) == [pc |-> "loop", attempt |-> att]

\* faulty variant: no except clause, the exception leaves search_and_improve
AttemptBoundary_Propagated(att) == [pc |-> "propagated", attempt |-> att]

\* lines 159-162: an exception raised inside the try block of an attempt
\* ends the attempt, and the loop goes on with the next one
AttemptBoundary(att) == [pc |-> "loop", attempt |-> att + 1]

\* format_results(results): results['results'] raises TypeError on a list;
\* result.get raises on an entry that is no mapping
FormatResultsRaises(sr) ==
    \/ ~sr.nested
    \/ \E i \in 1..Len(sr.results) : ~IsMapping(sr.results[i])

\* line 249: {int(char) for char in response_text[:40] if char.isdigit()}
ParsedResponse(response_text) ==
    {DigitValue(response_text[k]) :
        k \in {j \in 1..Min(Len(response_text), SelectPrefix) :
                  response_text[j] \in Digits}}

\* results[i-1]: index -1 is the last entry, an index past the end raises
\* IndexError; ['url'] raises on an entry without that key
IndexRaises(items, i) ==
    \/ i > Len(items)
    \/ i = 0 /\ items = << >>
    \/ LET r == items[IF i = 0 THEN Len(items) ELSE i] IN
       ~IsMapping(r) \/ "url" \notin DOMAIN r

\* line 250: search_results['results'] raises TypeError on a list
SelectionRaises(sr, parsed) ==
    \E i \in parsed : ~sr.nested \/ IndexRaises(sr.results, i)

IndexedUrl(items, i) == items[IF i = 0 THEN Len(items) ELSE i].url

\* the selection as a list, in the order the set of indices is walked
RECURSIVE SelectedUrls(_, _)
SelectedUrls(items, parsed) ==
    IF parsed = {} THEN << >>
    ELSE LET i == CHOOSE x \in parsed : \A y \in parsed : x <= y IN
         <<IndexedUrl(items, i)>> \o SelectedUrls(items, parsed \ {i})

RECURSIVE ItemUrls(_)
ItemUrls(items) ==
    IF items = << >> THEN << >> ELSE <<Head(items).url>> \o ItemUrls(Tail(items))

SeqRange(s) == {s[i] : i \in 1..Len(s)}

\* faulty variant: the robots check is not consulted
MayFetch_Unchecked(robots_allowed) == TRUE

\* line 282: the url is fetched when the robots check allowed it
MayFetch(robots_allowed) == robots_allowed

\* the happy path's answers
HappySearch(sr) ==
    /\ sr.success
    /\ ~sr.nested
    /\ Len(sr.results) >= 2
    /\ \A i \in 1..Len(sr.results) :
          IsMapping(sr.results[i]) /\ "url" \in DOMAIN sr.results[i]

HappySelection(sr, parsed) ==
    Cardinality(parsed) = 2 /\ \A i \in parsed : 1 <= i /\ i <= Len(sr.results)

\* the locals of an attempt that is over
ClearLocals ==
    /\ search_results' = NoResponse
    /\ retry' = 0
    /\ urls' = << >>
    /\ scraped_content' = {}
    /\ ai_answer' = 0

\* the except clause of the attempt takes over
Caught ==
    /\ pc' = AttemptBoundary(attempt).pc
    /\ attempt' = AttemptBoundary(attempt).attempt
    /\ raised' = TRUE
    /\ ClearLocals

\* attempt += 1; continue
NextAttempt ==
    /\ pc' = "loop"
    /\ attempt' = attempt + 1
    /\ raised' = FALSE
    /\ ClearLocals

\* the step goes on inside the attempt
Proceed(to) ==
    /\ pc' = to
    /\ raised' = FALSE
    /\ UNCHANGED attempt

\* search_and_improve returns `text`
Returned(text, how) ==
    /\ result' = text
    /\ terminal' = how
    /\ pc' = "done"
    /\ raised' = FALSE
    /\ UNCHANGED attempt
    /\ ClearLocals

\* a caller asks search_and_improve(user_query); 0 is the empty query
Request ==
    /\ pc = "idle"
    /\ ncalls < MaxCalls
    /\ \E q \in {0, 1} : user_query' = q
    /\ pc' = "loop"
    /\ attempt' = 0
    /\ ncalls' = ncalls + 1
    /\ searches' = 0
    /\ steps' = {}
    /\ raised' = FALSE
    /\ terminal' = "none"
    /\ fetched' = {}
    /\ happy' = TRUE
    /\ all_empty' = TRUE
    /\ last_decision' = "none"
    /\ result' = << >>
    /\ ClearLocals
    /\ UNCHANGED <<max_attempts, request_count, mvars>>
    /\ UNCHANGED xvars

\* lines 90-106: the loop test, formulate_query (which hands the query
\* back with time range 'none') and the test for an empty query
LoopHead ==
    /\ pc = "loop"
    /\ IF attempt < max_attempts
       THEN IF user_query = 0
            THEN NextAttempt
            ELSE Proceed("search") /\ UNCHANGED locals
       ELSE Proceed("fallback") /\ UNCHANGED locals
    /\ UNCHANGED <<max_attempts, request_count, user_query, result, ncalls,
                   searches, steps, terminal, fetched, happy, all_empty,
                   last_decision, mvars>>
    /\ UNCHANGED xvars

\* lines 170-207: perform_search up to the call of search_manager.search.
\* `cooled` says that the cooldown period has passed since the last request.
PerformSearch ==
    /\ pc = "search"
    /\ mpc = "idle"
    /\ \E cooled \in BOOLEAN :
          request_count' =
              (IF request_count >= requests_per_minute /\ ~cooled
               THEN 0 ELSE request_count) + 1
    /\ SearchEnter
    /\ Proceed("searching")
    /\ searches' = searches + 1
    /\ UNCHANGED <<max_attempts, user_query, locals, result, ncalls, steps,
                   terminal, fetched, happy, all_empty, last_decision>>
    /\ UNCHANGED xvars

\* faulty variant: the test for empty results is missing
NoResults_SuccessOnly(response) == ~response.success

\* faulty variant: the test of line 114 is missing
NoResults_Never(response) == FALSE

\* line 114: the search gave nothing to go on
NoResults(response) == ~response.success \/ response.results = << >>

\* lines 108-119: search() has returned; its locals are gone
SearchReturn ==
    /\ pc = "searching"
    /\ mpc \in {"returned", "raised"}
    /\ mpc' = "idle"
    /\ tried_providers' = {}
    /\ fi' = 1
    /\ mres' = NoResponse
    /\ calls' = << >>
    /\ last_raw' = EmptyPayload
    /\ pauses' = << >>
    /\ IF mpc = "raised"
       THEN /\ Caught
            /\ UNCHANGED <<happy, all_empty>>
       ELSE /\ happy' = (happy /\ HappySearch(mres))
            /\ all_empty' = (all_empty /\ mres.results = << >>)
            /\ IF NoResults(mres)
               THEN NextAttempt
               ELSE /\ Proceed("select")
                    /\ search_results' = mres
                    /\ UNCHANGED <<retry, urls, scraped_content, ai_answer>>
    /\ UNCHANGED <<max_attempts, request_count, user_query, result, ncalls,
                   searches, steps, terminal, fetched, last_decision,
                   providers, current_provider, cp_entry>>
    /\ UNCHANGED xvars

\* lines 229-242: select_relevant_pages(search_results['results'], ...)
\* builds its prompt
SelectPrompt ==
    /\ pc = "select"
    /\ steps' = steps \cup {"select"}
    /\ IF FormatResultsRaises(search_results)
       THEN Caught
       ELSE Proceed("select_try") /\ UNCHANGED locals
    /\ UNCHANGED <<max_attempts, request_count, user_query, result, ncalls,
                   searches, terminal, fetched, happy, all_empty,
                   last_decision, mvars>>
    /\ UNCHANGED xvars

\* lines 243-256: one try of the selection
SelectTry ==
    /\ pc = "select_try"
    /\ retry < select_max_retries
    /\ \E out \in SelectionOutcomes :
         LET parsed == ParsedResponse(out.text) IN
         IF out.raised \/ SelectionRaises(search_results, parsed)
         THEN Caught /\ happy' = FALSE
         ELSE LET selected_urls == SelectedUrls(search_results.results, parsed) IN
              \E v \in [SeqRange(selected_urls) -> CanFetchOutcomes] :
                 LET allowed_urls ==
                         FilterSeq(selected_urls,
                                   {u \in SeqRange(selected_urls) : v[u] = "allow"})
                 IN
                 /\ happy' = (happy /\ HappySelection(search_results, parsed)
                                    /\ \A u \in DOMAIN v : v[u] = "allow")
                 /\ IF \E u \in DOMAIN v : v[u] = "raise"
                    THEN Caught
                    ELSE IF allowed_urls # << >>
                    THEN /\ Proceed("scrape")
                         /\ urls' = allowed_urls
                         /\ UNCHANGED <<search_results, retry, scraped_content,
                                        ai_answer>>
                    ELSE /\ Proceed("select_try")
                         /\ retry' = retry + 1
                         /\ UNCHANGED <<search_results, urls, scraped_content,
                                        ai_answer>>
    /\ UNCHANGED <<max_attempts, request_count, user_query, result, ncalls,
                   searches, steps, terminal, fetched, all_empty,
                   last_decision, mvars>>
    /\ UNCHANGED xvars

\* lines 259-261: the selection gave nothing three times; iterating the
\* argument walks a list's entries, but a mapping's keys, and ['url'] on a
\* key raises TypeError
SelectFallback ==
    /\ pc = "select_try"
    /\ retry >= select_max_retries
    /\ happy' = FALSE
    /\ IF search_results.nested
          \/ \E i \in 1..Len(search_results.results) :
                IndexRaises(search_results.results, i)
       THEN Caught
       ELSE LET all_urls == ItemUrls(search_results.results) IN
            \E v \in [SeqRange(all_urls) -> CanFetchOutcomes] :
               LET allowed == FilterSeq(all_urls,
                                  {u \in SeqRange(all_urls) : v[u] = "allow"})
                   allowed_urls == SubSeq(allowed, 1, Min(Len(allowed), FallbackUrls))
               IN
               IF \E u \in DOMAIN v : v[u] = "raise"
               THEN Caught
               ELSE IF allowed_urls # << >>
               THEN /\ Proceed("scrape")
                    /\ urls' = allowed_urls
                    /\ UNCHANGED <<search_results, retry, scraped_content,
                                   ai_answer>>
               ELSE NextAttempt
    /\ UNCHANGED <<max_attempts, request_count, user_query, result, ncalls,
                   searches, steps, terminal, fetched, all_empty,
                   last_decision, mvars>>
    /\ UNCHANGED xvars

\* lines 280-294: scrape_content handles the next url
Scrape ==
    /\ pc = "scrape"
    /\ urls # << >>
    /\ steps' = steps \cup {"fetch"}
    /\ LET url == Head(urls) IN
       \E robots \in CanFetchOutcomes :
          IF robots = "raise"
          THEN Caught /\ happy' = FALSE /\ UNCHANGED fetched
          ELSE IF MayFetch(robots = "allow")
          THEN \E content \in FetchOutcomes :
                 /\ fetched' = fetched \cup {[url |-> url, robots |-> robots]}
                 /\ happy' = (happy /\ content = "content")
                 /\ IF content = "raise"
                    THEN Caught
                    ELSE /\ Proceed("scrape")
                         /\ urls' = Tail(urls)
                         /\ scraped_content' =
                               IF content = "content"
                               THEN scraped_content \cup {url}
                               ELSE scraped_content
                         /\ UNCHANGED <<search_results, retry, ai_answer>>
          ELSE /\ Proceed("scrape")
               /\ urls' = Tail(urls)
               /\ happy' = FALSE
               /\ UNCHANGED <<search_results, retry, scraped_content,
                              ai_answer, fetched>>
    /\ UNCHANGED <<max_attempts, request_count, user_query, result, ncalls,
                   searches, terminal, all_empty, last_decision, mvars>>
    /\ UNCHANGED xvars

\* faulty variant: the test of line 131 is missing
NothingScraped_Never(content) == FALSE

\* line 131: not scraped_content
NothingScraped(content) == content = {}

\* lines 131-136: scrape_content has returned
ScrapeDone ==
    /\ pc = "scrape"
    /\ urls = << >>
    /\ IF NothingScraped(scraped_content)
       THEN NextAttempt
       ELSE Proceed("evaluate") /\ UNCHANGED locals
    /\ UNCHANGED <<max_attempts, request_count, user_query, result, ncalls,
                   searches, steps, terminal, fetched, happy, all_empty,
                   last_decision, mvars>>
    /\ UNCHANGED xvars

\* line 148 and line 155: the decisions after which the answer is generated
LeadsToAnswer(decision) == decision # "refine"

\* lines 140-157: the evaluation and the branch on its decision
Evaluate ==
    /\ pc = "evaluate"
    /\ steps' = steps \cup {"evaluate"}
    /\ \E decision \in DecisionOutcomes :
          /\ last_decision' = decision
          /\ happy' = (happy /\ decision = "answer")
          /\ IF decision = "raise"
             THEN Caught
             ELSE IF LeadsToAnswer(decision)
             THEN /\ Proceed("answer")
                  /\ ai_answer' = IF decision = "answer"
                                     /\ search_results.provider = "tavily"
                                  THEN search_results.answer ELSE 0
                  /\ retry' = 0
                  /\ UNCHANGED <<search_results, urls, scraped_content>>
             ELSE NextAttempt
    /\ UNCHANGED <<max_attempts, request_count, user_query, result, ncalls,
                   searches, terminal, fetched, all_empty, mvars>>
    /\ UNCHANGED xvars

\* faulty variant: the test of line 337 is missing
Answered_Always(response_text) == TRUE

\* line 337: if response_text
Answered(response_text) == response_text # << >>

\* lines 331-339: one try of generate_final_answer; an exception of the
\* gateway leaves generate_final_answer and reaches the attempt's except
AnswerTry ==
    /\ pc = "answer"
    /\ retry < answer_max_retries
    /\ steps' = steps \cup {"answer"}
    /\ \E out \in AnswerOutcomes :
          IF out.raised
          THEN Caught /\ happy' = FALSE /\ UNCHANGED <<result, terminal>>
          ELSE /\ UNCHANGED happy
               /\ IF Answered(out.text)
                  THEN Returned(out.text, "ANSWER")
                  ELSE /\ Proceed("answer")
                       /\ retry' = retry + 1
                       /\ UNCHANGED <<search_results, urls, scraped_content,
                                      ai_answer, result, terminal>>
    /\ UNCHANGED <<max_attempts, request_count, user_query, ncalls, searches,
                   fetched, all_empty, last_decision, mvars>>
    /\ UNCHANGED xvars

\* lines 341-343: every try gave an empty text
AnswerGiveUp ==
    /\ pc = "answer"
    /\ retry >= answer_max_retries
    /\ Returned(AnswerApology, "ANSWER")
    /\ UNCHANGED <<max_attempts, request_count, user_query, ncalls, searches,
                   steps, fetched, happy, all_empty, last_decision, mvars>>
    /\ UNCHANGED xvars

\* faulty variant: the test of line 365 is missing
SynthesizedAnswer_Unchecked(out) ==
    IF ~out.raised THEN Strip(out.text) ELSE FallbackApology

\* lines 352-369: what synthesize_final_answer returns for an outcome of
\* the gateway
SynthesizedAnswer(out) ==
    IF ~out.raised /\ out.text # << >> THEN Strip(out.text) ELSE FallbackApology

\* line 164: the attempts are used up
Fallback ==
    /\ pc = "fallback"
    /\ steps' = steps \cup {"fallback"}
    /\ \E out \in AnswerOutcomes : Returned(SynthesizedAnswer(out), "FALLBACK")
    /\ UNCHANGED <<max_attempts, request_count, user_query, ncalls, searches,
                   fetched, happy, all_empty, last_decision, mvars>>
    /\ UNCHANGED xvars

\* the caller has the string; nothing of the request is left but what the
\* objects keep
Return ==
    /\ pc = "done"
    /\ pc' = "idle"
    /\ user_query' = 0
    /\ attempt' = 0
    /\ result' = << >>
    /\ searches' = 0
    /\ steps' = {}
    /\ raised' = FALSE
    /\ terminal' = "none"
    /\ fetched' = {}
    /\ happy' = TRUE
    /\ all_empty' = TRUE
    /\ last_decision' = "none"
    /\ UNCHANGED <<max_attempts, request_count, locals, ncalls, mvars>>
    /\ UNCHANGED xvars

(***************************************************************************)
(* Operations called on their own: nothing has been called yet.            *)
(***************************************************************************)
\* no function has been applied
NoApplication == [op |-> "none", arg |-> 0, out |-> 0, raised |-> FALSE]

\* seconds the arXiv provider keeps between two requests
MinSpacing == 3

\* ArXivSearchProvider.__init__: last_request_time = 0 is the epoch, far
\* more than MinSpacing before any call; no request was issued yet.  Ages
\* are counted in seconds up to MinSpacing, which stands for "MinSpacing
\* or more".
NewArXiv ==
    [pc |-> "idle", n |-> 0, since_stamp |-> MinSpacing,
     since_issue |-> MinSpacing, log |-> << >>, out |-> "none"]

\* the callers of perform_search on one engine
Callers == {1, 2}

\* a caller outside perform_search: time_since_last_request, the value of
\* self.request_count read by `+= 1`, the seconds it slept, and the calls
\* it has made
IdleCaller == [pc |-> "idle", elapsed |-> 0, tmp |-> 0, slept |-> 0, n |-> 0]

IdleCallers == [c \in Callers |-> IdleCaller]

\* the threads calling search() on one SearchManager
Threads == {1, 2}

\* a thread outside search(): the provider object it holds, the payload
\* that provider gave, tried_providers, the position in fallback_order,
\* the providers whose search it called, the response it returned, the
\* calls of search() it has finished
IdleThread ==
    [pc |-> "idle", provider |-> "None", raw |-> EmptyPayload, tried |-> {},
     fi |-> 1, called |-> << >>, out |-> NoResponse, n |-> 0]

IdleThreads == [t \in Threads |-> IdleThread]

(***************************************************************************)
(* The engine after construction, and its steps.                           *)
(***************************************************************************)
Init ==
    /\ \E usable \in SUBSET ProviderIds : providers = _initialize_providers(usable)
    /\ current_provider = default_provider
    /\ mpc = "idle"
    /\ tried_providers = {}
    /\ fi = 1
    /\ mres = NoResponse
    /\ calls = << >>
    /\ last_raw = EmptyPayload
    /\ pauses = << >>
    /\ cp_entry = default_provider
    /\ max_attempts \in 0..MaxAttempts
    /\ request_count = 0
    /\ pc = "idle"
    /\ user_query = 0
    /\ attempt = 0
    /\ search_results = NoResponse
    /\ retry = 0
    /\ urls = << >>
    /\ scraped_content = {}
    /\ ai_answer = 0
    /\ result = << >>
    /\ ncalls = 0
    /\ searches = 0
    /\ steps = {}
    /\ raised = FALSE
    /\ terminal = "none"
    /\ fetched = {}
    /\ happy = TRUE
    /\ all_empty = TRUE
    /\ last_decision = "none"
    /\ fn = NoApplication
    /\ callers = IdleCallers
    /\ admitted = 0
    /\ last_request_time = "old"
    /\ threads = IdleThreads
    /\ arxiv = NewArXiv

\* the steps of a running request
Run ==
    \/ LoopHead
    \/ PerformSearch
    \/ SearchCurrent
    \/ SearchFallback
    \/ SearchExhausted
    \/ SearchReturn
    \/ SelectPrompt
    \/ SelectTry
    \/ SelectFallback
    \/ Scrape
    \/ ScrapeDone
    \/ Evaluate
    \/ AnswerTry
    \/ AnswerGiveUp
    \/ Fallback
    \/ Return

Next == Request \/ Run

Spec == Init /\ [][Next]_vars

\* a request that was started keeps running: every call it waits for
\* returns or raises
FairSpec == Spec /\ WF_vars(Run)

(***************************************************************************)
(* The functions of the program applied on their own, to every argument    *)
(* of the model, one application in a behaviour.  The engine and the       *)
(* manager stand as constructed.                                           *)
(***************************************************************************)
\* the payloads a provider call can hand to _normalize_results
NormalizerInputs == RawPayloads \ {RaisePayload}

\* self._normalize_results(results, provider)
ApplyNormalize ==
    /\ fn.op = "none"
    /\ \E raw \in NormalizerInputs, provider \in ProviderIds :
          fn' = [op |-> "_normalize_results",
                 arg |-> [raw |-> raw, provider |-> provider],
                 out |-> IF NormalizeRaises(raw, provider) THEN NoResponse
                         ELSE _normalize_results(raw, provider),
                 raised |-> NormalizeRaises(raw, provider)]
    /\ UNCHANGED <<mvars, evars, callers, admitted, last_request_time, threads, arxiv>>

\* a canonical response read as a payload: it is a mapping that has the
\* keys 'success', 'error', 'results' and 'provider' (lines 70-75, 78-83,
\* 85-90) and, when the payload had one, 'answer' (line 94)
CanonicalAsPayload(response) ==
    RawPayload("mapping", TRUE, response.answer # 0, FALSE, response.nested,
               response.results)

\* _normalize_results(response, provider) for a canonical response: the
\* error handed back is results['error'] (line 80)
Renormalized(response, provider) ==
    [_normalize_results(CanonicalAsPayload(response), provider)
        EXCEPT !.error = response.error]

\* self._normalize_results(self._normalize_results(results, provider), provider)
ApplyNormalizeTwice ==
    /\ fn.op = "none"
    /\ \E raw \in NormalizerInputs, provider \in ProviderIds :
          /\ ~NormalizeRaises(raw, provider)
          /\ fn' = [op |-> "normalize_twice",
                    arg |-> [raw |-> raw, provider |-> provider],
                    out |-> [first |-> _normalize_results(raw, provider),
                             second |-> Renormalized(
                                 _normalize_results(raw, provider), provider)],
                    raised |-> FALSE]
    /\ UNCHANGED <<mvars, evars, callers, admitted, last_request_time, threads, arxiv>>

\* RESEARCH_CONFIG['search']['max_results_per_search']
max_results_per_search == 10

\* RESEARCH_CONFIG['search']['min_relevance_score'], in tenths
min_relevance_score == 6

\* the time-range codes perform_search is called with: the codes of the
\* table, codes in capitals, codes the table does not have, the empty code
TimeRangeCodes == {"d", "w", "m", "y", "none", "D", "W", "NONE", "x", ""}

\* str.lower() on the codes of the model
Lower(code) ==
    CASE code = "D" -> "d"
      [] code = "W" -> "w"
      [] code = "NONE" -> "none"
      [] OTHER -> code

\* faulty variant: a month is taken as 31 days
time_params_Month31 ==
    [d |-> [days |-> 1], w |-> [days |-> 7], m |-> [days |-> 31],
     y |-> [days |-> 365], none |-> << >>]

\* lines 198-204: the table from code to parameters
time_params ==
    [d |-> [days |-> 1], w |-> [days |-> 7], m |-> [days |-> 30],
     y |-> [days |-> 365], none |-> << >>]

\* lines 192-205: search_params after the update with
\* time_params.get(time_range.lower(), {})
SearchParams(time_range) ==
    (IF Lower(time_range) \in DOMAIN time_params
     THEN time_params[Lower(time_range)] ELSE << >>)
    @@ [max_results |-> max_results_per_search,
        min_relevance_score |-> min_relevance_score]

\* perform_search builds its search_params for a time-range code
ApplySearchParams ==
    /\ fn.op = "none"
    /\ \E time_range \in TimeRangeCodes :
          fn' = [op |-> "search_params", arg |-> time_range,
                 out |-> SearchParams(time_range), raised |-> FALSE]
    /\ UNCHANGED <<mvars, evars, callers, admitted, last_request_time, threads, arxiv>>

\* most results a response handed to select_relevant_pages holds
MaxResults == 10

\* longest answer of the gateway to the selection prompt
MaxSelectLen == 4

\* the response with n results that select_relevant_pages can read: the
\* value under 'results' is a mapping with a list under 'results', as the
\* tavily variant passes it through; result i has url i
SelectableResponse(n) ==
    Response(TRUE, "none", [i \in 1..n |-> FullItem(i)], "tavily", 0, TRUE)

\* the answers of the gateway to the selection prompt
SelectTexts ==
    {generate(t) :
        t \in UNION {[1..k -> Digits \cup {"a"}] : k \in 0..MaxSelectLen}}

\* lines 249-250 of select_relevant_pages for one answer of the gateway
ApplySelect ==
    /\ fn.op = "none"
    /\ \E n \in 1..MaxResults, response_text \in SelectTexts :
          LET sr == SelectableResponse(n)
              parsed == ParsedResponse(response_text)
              raises == SelectionRaises(sr, parsed)
          IN fn' = [op |-> "select",
                    arg |-> [n |-> n, response_text |-> response_text],
                    out |-> IF raises THEN << >>
                            ELSE SelectedUrls(sr.results, parsed),
                    raised |-> raises]
    /\ UNCHANGED <<mvars, evars, callers, admitted, last_request_time, threads, arxiv>>

\* the payload of a backend that answers with n items under 'results'
LongPayload(n) ==
    RawPayload("mapping", FALSE, FALSE, FALSE, FALSE,
               [i \in 1..n |-> FullItem(i)])

\* lines 156-163 (and 181-193): search() hands max_results on to the
\* provider among the keyword arguments and returns what
\* _normalize_results makes of the provider's results
ApplySearchResponse ==
    /\ fn.op = "none"
    /\ \E provider \in ProviderIds, n \in 0..MaxResults + 1 :
          fn' = [op |-> "search_response",
                 arg |-> [provider |-> provider, n |-> n,
                          max_results |-> SearchParams("none").max_results],
                 out |-> _normalize_results(LongPayload(n), provider),
                 raised |-> NormalizeRaises(LongPayload(n), provider)]
    /\ UNCHANGED <<mvars, evars, callers, admitted, last_request_time, threads, arxiv>>

\* a response whose 'results' is a list of n results, as every variant
\* but the tavily pass-through makes it; result i has url i
ListResponse(n) ==
    Response(TRUE, "none", [i \in 1..n |-> FullItem(i)], "exa", 0, FALSE)

\* the answers the gateway gives to the three selection prompts
SelectAnswers == {<<"a">>, <<"1">>, <<"2">>, <<"2", "a", "1">>}

\* lines 243-261 of select_relevant_pages after `tries` tries (the loop
\* variable retry):
\* texts[k] is the gateway's answer to the k-th prompt, `allowed` the urls
\* can_fetch lets through; the outcome is whether an exception left the
\* function, the urls returned and the gateway calls made
RECURSIVE SelectFrom(_, _, _, _)
SelectFrom(sr, texts, allowed, tries) ==
    IF tries >= select_max_retries
    THEN IF \/ sr.nested
            \/ \E i \in 1..Len(sr.results) : IndexRaises(sr.results, i)
         THEN [raised |-> TRUE, urls |-> << >>, calls |-> tries]
         ELSE LET kept == FilterSeq(ItemUrls(sr.results), allowed) IN
              [raised |-> FALSE,
               urls |-> SubSeq(kept, 1, Min(Len(kept), FallbackUrls)),
               calls |-> tries]
    ELSE LET parsed == ParsedResponse(texts[tries + 1]) IN
         IF SelectionRaises(sr, parsed)
         THEN [raised |-> TRUE, urls |-> << >>, calls |-> tries + 1]
         ELSE LET allowed_urls ==
                      FilterSeq(SelectedUrls(sr.results, parsed), allowed)
              IN IF allowed_urls # << >>
                 THEN [raised |-> FALSE, urls |-> allowed_urls,
                       calls |-> tries + 1]
                 ELSE SelectFrom(sr, texts, allowed, tries + 1)

\* select_relevant_pages(search_results, user_query): the prompt is built
\* with format_results (line 232) before the first try
select_relevant_pages(sr, texts, allowed) ==
    IF FormatResultsRaises(sr)
    THEN [raised |-> TRUE, urls |-> << >>, calls |-> 0]
    ELSE SelectFrom(sr, texts, allowed, 0)

\* select_relevant_pages called on a list of results and on a mapping
\* that holds the list under 'results'
ApplySelectPages ==
    /\ fn.op = "none"
    /\ \E nested \in BOOLEAN, n \in 1..2,
          texts \in [1..select_max_retries -> SelectAnswers] :
          \E allowed \in SUBSET (1..n) :
             LET sr == IF nested THEN SelectableResponse(n) ELSE ListResponse(n)
                 r == select_relevant_pages(sr, texts, allowed)
             IN fn' = [op |-> "select_relevant_pages",
                       arg |-> [nested |-> nested, n |-> n, texts |-> texts,
                                allowed |-> allowed],
                       out |-> [urls |-> r.urls, calls |-> r.calls],
                       raised |-> r.raised]
    /\ UNCHANGED <<mvars, evars, callers, admitted, last_request_time, threads, arxiv>>

(***************************************************************************)
(* The loop of _initialize_providers, one iteration per name of            *)
(* fallback_order.  `built` says, for each class of the factory, how its   *)
(* construction ends: the constructor raises, the instance reports         *)
(* is_configured() false, or the instance is usable.                       *)
(***************************************************************************)
ConstructionOutcomes == {"ok", "raises", "unconfigured"}

\* the try block of one iteration: get_provider raises ValueError for a
\* name that is not in the registry, else the class is constructed
ProviderOutcome(name, built) ==
    IF name \notin FactoryProviders THEN "raises" ELSE built[name]

InitializationCaught_Never(outcome) == FALSE

\* the except clause of the iteration catches whatever the try block raises
InitializationCaught(outcome) == outcome = "raises"

RECURSIVE InitializeFrom(_, _, _)
InitializeFrom(i, built, acc) ==
    IF i > Len(fallback_order)
    THEN [providers |-> acc, raised |-> FALSE]
    ELSE LET provider_name == fallback_order[i]
             outcome == ProviderOutcome(provider_name, built)
         IN  IF outcome = "ok"
             THEN InitializeFrom(i + 1, built, acc \cup {provider_name})
             ELSE IF outcome = "unconfigured" \/ InitializationCaught(outcome)
             THEN InitializeFrom(i + 1, built, acc)
             ELSE [providers |-> acc, raised |-> TRUE]

\* a SearchManager is constructed
ApplyInitialize ==
    /\ fn.op = "none"
    /\ \E built \in [FactoryProviders -> ConstructionOutcomes] :
          LET done == InitializeFrom(1, built, {})
          IN  fn' = [op |-> "initialize", arg |-> built,
                     out |-> done.providers, raised |-> done.raised]
    /\ UNCHANGED <<mvars, evars, callers, admitted, last_request_time, threads, arxiv>>

FnInit == Init /\ providers = {} /\ max_attempts = 0

FnNext ==
    \/ ApplyNormalize
    \/ ApplyNormalizeTwice
    \/ ApplySearchParams
    \/ ApplySelect
    \/ ApplySearchResponse
    \/ ApplySelectPages
    \/ ApplyInitialize

FnSpec == FnInit /\ [][FnNext]_vars

(***************************************************************************)
(* The rate-limit check of perform_search (lines 177-190) with several     *)
(* callers on one engine.  Nothing in the code orders the callers' reads   *)
(* and writes of self.request_count and self.last_request_time, so every   *)
(* statement is a step of its own and `+= 1` is a read and a write.  Time  *)
(* is the age of last_request_time; a window is over when the cooldown     *)
(* period has passed without a request, or when a caller has slept out     *)
(* the rest of it.                                                         *)
(***************************************************************************)
\* calls of perform_search each caller makes at its own pace
MaxRateCalls == 2

\* how far below requests_per_minute a burst of calls ends
Headroom == 2

\* RESEARCH_CONFIG["rate_limiting"]["cooldown_period"]
cooldown_period == 60

\* time_since_last_request of line 179, in seconds, for a recent and for an
\* old last_request_time
ElapsedValues(age) == IF age = "recent" THEN {0, 30} ELSE {60, 90}

\* faulty variant: the limit is compared with > instead of >=
MustCoolDown_Strict(count, elapsed) ==
    count > requests_per_minute /\ elapsed < cooldown_period

\* lines 182-183: the limit is reached and the cooldown has not passed
MustCoolDown(count, elapsed) ==
    count >= requests_per_minute /\ elapsed < cooldown_period

\* line 185: the rest of the cooldown period
SleepLength(elapsed) == cooldown_period - elapsed

\* what a step of the rate-limit check leaves alone
rate_frame ==
    <<mvars, max_attempts, pc, user_query, attempt, locals, result, ncalls,
      searches, steps, raised, terminal, fetched, happy, all_empty,
      last_decision, fn, threads, arxiv>>

\* a burst: requests_per_minute - Headroom calls of perform_search made one
\* after the other on a fresh window with nobody else inside; none of them
\* finds the limit reached, each counts and issues its search
RateBurst ==
    /\ \A c \in Callers : callers[c].pc = "idle"
    /\ request_count = 0
    /\ admitted = 0
    /\ request_count' = requests_per_minute - Headroom
    /\ admitted' = requests_per_minute - Headroom
    /\ last_request_time' = "recent"
    /\ UNCHANGED <<callers, rate_frame>>

\* lines 178-179: perform_search is entered with a non-empty query
RateEnter(c) ==
    /\ callers[c].pc = "idle"
    /\ callers[c].n < MaxRateCalls
    /\ \E elapsed \in ElapsedValues(last_request_time) :
          callers' = [callers EXCEPT ![c] =
                         [@ EXCEPT !.pc = "check", !.elapsed = elapsed]]
    /\ UNCHANGED <<request_count, admitted, last_request_time, rate_frame>>

\* lines 182-185: the test of the limit; the sleep begins
RateCheck(c) ==
    /\ callers[c].pc = "check"
    /\ callers' = [callers EXCEPT ![c] =
           IF MustCoolDown(request_count, callers[c].elapsed)
           THEN [@ EXCEPT !.pc = "sleeping",
                          !.slept = SleepLength(callers[c].elapsed)]
           ELSE [@ EXCEPT !.pc = "stamp"]]
    /\ UNCHANGED <<request_count, admitted, last_request_time, rate_frame>>

\* line 186: the sleep is over, the window is reset
RateWake(c) ==
    /\ callers[c].pc = "sleeping"
    /\ request_count' = 0
    /\ admitted' = 0
    /\ last_request_time' = "old"
    /\ callers' = [callers EXCEPT ![c].pc = "stamp"]
    /\ UNCHANGED rate_frame

\* line 189, and the read of self.request_count by line 190
RateStamp(c) ==
    /\ callers[c].pc = "stamp"
    /\ last_request_time' = "recent"
    /\ callers' = [callers EXCEPT ![c].pc = "write", ![c].tmp = request_count]
    /\ UNCHANGED <<request_count, admitted, rate_frame>>

\* line 190: the write of self.request_count
RateWrite(c) ==
    /\ callers[c].pc = "write"
    /\ request_count' = callers[c].tmp + 1
    /\ callers' = [callers EXCEPT ![c].pc = "outbound"]
    /\ UNCHANGED <<admitted, last_request_time, rate_frame>>

\* line 207: the outbound search is issued and perform_search returns
RateOutbound(c) ==
    /\ callers[c].pc = "outbound"
    /\ admitted' = admitted + 1
    /\ callers' = [callers EXCEPT ![c] =
                       [IdleCaller EXCEPT !.n = callers[c].n + 1]]
    /\ UNCHANGED <<request_count, last_request_time, rate_frame>>

\* the cooldown period passes without a request
TimePasses ==
    /\ last_request_time = "recent"
    /\ last_request_time' = "old"
    /\ admitted' = 0
    /\ UNCHANGED <<request_count, callers, rate_frame>>

RateNext ==
    \/ RateBurst
    \/ \E c \in Callers :
          \/ RateEnter(c)
          \/ RateCheck(c)
          \/ RateWake(c)
          \/ RateStamp(c)
          \/ RateWrite(c)
          \/ RateOutbound(c)
    \/ TimePasses

RateSpec == FnInit /\ [][RateNext]_vars

\* one caller alone: perform_search is entered again and again, up to one
\* call past those that fill the window after the burst
SoloEnter ==
    /\ callers[1].pc = "idle"
    /\ callers[1].n <= Headroom
    /\ \E elapsed \in ElapsedValues(last_request_time) :
          callers' = [callers EXCEPT ![1] =
                         [@ EXCEPT !.pc = "check", !.elapsed = elapsed]]
    /\ UNCHANGED <<request_count, admitted, last_request_time, rate_frame>>

SoloNext ==
    \/ RateBurst
    \/ SoloEnter
    \/ RateCheck(1)
    \/ RateWake(1)
    \/ RateStamp(1)
    \/ RateWrite(1)
    \/ RateOutbound(1)
    \/ TimePasses

SoloSpec == FnInit /\ [][SoloNext]_vars

(***************************************************************************)
(* search() called by two threads on one SearchManager.  The manager has   *)
(* no lock: a thread reads self.current_provider anew at lines 153, 155,   *)
(* 160 and 171, and another thread may assign it (line 192) in between.    *)
(* tried_providers, provider, results and provider_name are locals.        *)
(***************************************************************************)
\* calls of search() one thread makes
MaxSearches == 2

\* the payloads a provider hands to the threads
RacePayloads == {RaisePayload, ErrorPayload, TwoPayload}

\* what a step of a thread inside search() leaves alone
race_frame ==
    <<providers, mpc, tried_providers, fi, mres, calls, last_raw, pauses,
      cp_entry, evars, fn, callers, admitted, last_request_time, arxiv>>

\* line 150: search() is entered
RaceEnter(t) ==
    /\ threads[t].pc = "idle"
    /\ threads[t].n < MaxSearches
    /\ threads' = [threads EXCEPT ![t] = [IdleThread EXCEPT !.pc = "check",
                                                           !.n = threads[t].n]]
    /\ UNCHANGED <<current_provider, race_frame>>

\* line 153: is the current provider configured
RaceCheck(t) ==
    /\ threads[t].pc = "check"
    /\ threads' = [threads EXCEPT ![t].pc =
                      IF current_provider \in providers THEN "pick" ELSE "loop"]
    /\ UNCHANGED <<current_provider, race_frame>>

\* line 155: provider = self.providers[self.current_provider]
RacePick(t) ==
    /\ threads[t].pc = "pick"
    /\ threads' = [threads EXCEPT ![t] =
                      [@ EXCEPT !.pc = "call", !.provider = current_provider]]
    /\ UNCHANGED <<current_provider, race_frame>>

\* line 159: results = provider.search(...), on the object picked at 155
RaceCall(t) ==
    /\ threads[t].pc = "call"
    /\ \E raw \in RacePayloads :
          threads' = [threads EXCEPT ![t] =
                        [@ EXCEPT !.pc = IF raw = RaisePayload THEN "add"
                                         ELSE "normalize",
                                  !.raw = raw,
                                  !.called = Append(@, threads[t].provider)]]
    /\ UNCHANGED <<current_provider, race_frame>>

\* lines 160-163: the results are normalized under self.current_provider
\* as it is now; a success is returned
RaceNormalize(t) ==
    /\ threads[t].pc = "normalize"
    /\ threads' = [threads EXCEPT ![t] =
          IF NormalizeRaises(threads[t].raw, current_provider)
          THEN [@ EXCEPT !.pc = "add"]
          ELSE IF _normalize_results(threads[t].raw, current_provider).success
          THEN [@ EXCEPT !.pc = "done",
                         !.out = _normalize_results(threads[t].raw,
                                                    current_provider)]
          ELSE [@ EXCEPT !.pc = "add"]]
    /\ UNCHANGED <<current_provider, race_frame>>

\* line 171: tried_providers.add(self.current_provider)
RaceAdd(t) ==
    /\ threads[t].pc = "add"
    /\ threads' = [threads EXCEPT ![t] =
                      [@ EXCEPT !.pc = "loop",
                                !.tried = @ \cup {current_provider}]]
    /\ UNCHANGED <<current_provider, race_frame>>

\* lines 174-203: one iteration of the loop over fallback_order; it reads
\* locals only and assigns self.current_provider once (line 192)
RaceLoop(t) ==
    /\ threads[t].pc = "loop"
    /\ threads[t].fi <= Len(fallback_order)
    /\ LET provider_name == fallback_order[threads[t].fi] IN
       IF Skipped(provider_name, providers, threads[t].tried)
       THEN /\ threads' = [threads EXCEPT ![t].fi = @ + 1]
            /\ UNCHANGED current_provider
       ELSE \E raw \in RacePayloads :
              LET ok == CallSucceeded(raw, provider_name) IN
              /\ current_provider' =
                    CurrentProviderAfter(ok, provider_name, current_provider)
              /\ threads' = [threads EXCEPT ![t] =
                    [@ EXCEPT !.tried = @ \cup {provider_name},
                              !.provider = provider_name,
                              !.raw = raw,
                              !.called = Append(@, provider_name),
                              !.pc = IF ok THEN "done" ELSE "loop",
                              !.fi = IF ok THEN @ ELSE @ + 1,
                              !.out = IF ok
                                      THEN _normalize_results(raw, provider_name)
                                      ELSE @]]
    /\ UNCHANGED race_frame

\* lines 205-211: every provider was tried
RaceExhausted(t) ==
    /\ threads[t].pc = "loop"
    /\ threads[t].fi > Len(fallback_order)
    /\ threads' = [threads EXCEPT ![t] =
                      [@ EXCEPT !.pc = "done", !.out = AllProvidersFailed]]
    /\ UNCHANGED <<current_provider, race_frame>>

\* the caller has the response; the locals are gone
RaceReturn(t) ==
    /\ threads[t].pc = "done"
    /\ threads' = [threads EXCEPT ![t] =
                      [IdleThread EXCEPT !.n = threads[t].n + 1]]
    /\ UNCHANGED <<current_provider, race_frame>>

RaceNext ==
    \E t \in Threads :
       \/ RaceEnter(t)
       \/ RaceCheck(t)
       \/ RacePick(t)
       \/ RaceCall(t)
       \/ RaceNormalize(t)
       \/ RaceAdd(t)
       \/ RaceLoop(t)
       \/ RaceExhausted(t)
       \/ RaceReturn(t)

\* a manager with the exa and bing providers configured
RaceInit == Init /\ providers = {"exa", "bing"} /\ max_attempts = 0

RaceSpec == RaceInit /\ [][RaceNext]_vars

(***************************************************************************)
(* ArXivSearchProvider.search, called again and again on one provider,     *)
(* with a clock counting seconds.                                          *)
(***************************************************************************)
\* calls of search() on the provider
MaxArxivCalls == 3

\* seconds a request to arXiv can take
MaxDuration == 1

\* an age d seconds later
Aged(age, d) == IF age + d > MinSpacing THEN MinSpacing ELSE age + d

\* the sleep before the request, for a last_request_time that old
RemainingDelay(since_stamp) ==
    IF since_stamp < MinSpacing THEN MinSpacing - since_stamp ELSE 0

arxiv_frame ==
    <<mvars, evars, fn, callers, admitted, last_request_time, threads>>

\* a second passes between two calls
ArxivTick ==
    /\ arxiv.pc = "idle"
    /\ arxiv.since_stamp < MinSpacing \/ arxiv.since_issue < MinSpacing
    /\ arxiv' = [arxiv EXCEPT !.since_stamp = Aged(@, 1),
                               !.since_issue = Aged(@, 1)]
    /\ UNCHANGED arxiv_frame

\* search() is called: it returns an error at once when is_configured()
\* is false
ArxivEnter ==
    /\ arxiv.pc = "idle"
    /\ arxiv.n < MaxArxivCalls
    /\ \E configured \in BOOLEAN :
          arxiv' = IF configured
                   THEN [arxiv EXCEPT !.pc = "delay", !.n = @ + 1,
                                      !.out = "none"]
                   ELSE [arxiv EXCEPT !.n = @ + 1, !.out = "unconfigured"]
    /\ UNCHANGED arxiv_frame

\* current_time is read and the call sleeps for what is left of the delay
ArxivDelay ==
    /\ arxiv.pc = "delay"
    /\ LET d == RemainingDelay(arxiv.since_stamp)
       IN  arxiv' = [arxiv EXCEPT !.pc = "request",
                                  !.since_stamp = Aged(@, d),
                                  !.since_issue = Aged(@, d)]
    /\ UNCHANGED arxiv_frame

\* the request is issued and takes d seconds; last_request_time is set
\* when the answer came without an HTTP error, and left alone in the
\* except clauses
ArxivRequest ==
    /\ arxiv.pc = "request"
    /\ \E ok \in BOOLEAN, d \in 0..MaxDuration :
          arxiv' = [arxiv EXCEPT
                      !.pc = "idle",
                      !.log = Append(@, [gap |-> arxiv.since_issue, ok |-> ok]),
                      !.since_issue = Aged(0, d),
                      !.since_stamp = IF ok THEN 0 ELSE Aged(@, d),
                      !.out = IF ok THEN "results" ELSE "error"]
    /\ UNCHANGED arxiv_frame

ArxivNext == ArxivTick \/ ArxivEnter \/ ArxivDelay \/ ArxivRequest

ArxivSpec == FnInit /\ [][ArxivNext]_vars

(***************************************************************************)
(* Properties.                                                             *)
(***************************************************************************)
AllFailed == \A i \in 1..Len(calls) : ~calls[i].ok

LastCall == calls[Len(calls)]

\* C1: when a provider's call fails and the next provider's call succeeds,
\* search() returns the second provider's normalized response (success,
\* provider = that provider) and that provider is the current provider.
C1_FallbackSucceeds ==
    (mpc = "returned" /\ Len(calls) >= 2 /\ LastCall.ok)
    => /\ mres = _normalize_results(last_raw, LastCall.provider)
       /\ mres.success
       /\ mres.provider = LastCall.provider
       /\ current_provider = LastCall.provider

C1_Witness ==
    /\ mpc = "returned"
    /\ Cardinality(providers) = 2
    /\ Len(calls) = 2
    /\ ~calls[1].ok
    /\ calls[2].ok
    /\ mres.provider = calls[2].provider
    /\ Len(mres.results) = 2

\* C2: when every provider called in a search() failed, and also when no
\* provider is configured, search() raises nothing and returns success
\* false, the error "All search providers failed", no results and no
\* provider.
C2_AllFail ==
    /\ mpc # "raised"
    /\ (mpc = "returned" /\ AllFailed)
       => /\ ~mres.success
          /\ mres.error = "all_providers_failed"
          /\ mres.results = << >>
          /\ mres.provider = "None"

C2_Witness ==
    /\ mpc = "returned"
    /\ Len(calls) >= 2
    /\ Len(calls) = Cardinality(providers)
    /\ AllFailed
    /\ last_raw.kind = "raise"

\* C3: current_provider changes only in a step in which the provider it
\* is set to has just been called and its result normalized to success,
\* and a search() whose providers all fail returns with the current
\* provider it was entered with.
C3_StickyOnlyOnSuccess ==
    [][/\ (current_provider' # current_provider)
          => /\ calls' = Append(calls, [provider |-> current_provider', ok |-> TRUE])
             /\ mpc' = "returned"
             /\ mres'.success
             /\ mres'.provider = current_provider'
       /\ (mpc' = "returned" /\ \A i \in 1..Len(calls') : ~calls'[i].ok)
          => current_provider' = cp_entry']_vars

C3_Witness ==
    /\ mpc = "returned"
    /\ current_provider # cp_entry
    /\ cp_entry \in providers

\* C4: search_and_improve terminates: a step that comes back to the head of
\* the loop has advanced the attempt counter by exactly one, no other step
\* of the request changes it, an attempt is started only below max_attempts,
\* and every request that was started returns.
C4_Terminates ==
    /\ [][/\ (pc # "idle" /\ pc' = "loop") => attempt' = attempt + 1
          /\ (pc # "idle" /\ pc' \notin {"idle", "loop"}) => attempt' = attempt
          /\ attempt' <= max_attempts'
          /\ (pc' \notin {"idle", "loop", "fallback", "done"})
             => attempt' < max_attempts']_vars
    /\ (pc = "loop") ~> (pc = "done")

C4_Witness ==
    /\ pc = "done"
    /\ attempt = max_attempts
    /\ max_attempts = MaxAttempts
    /\ user_query # 0

\* C5: when every search of a request returns no results, the request
\* makes exactly max_attempts attempts, each with one search call, takes
\* no SELECT, FETCH or EVALUATE step, and ends in FALLBACK with a
\* non-empty string.
C5_EmptySearches ==
    (pc = "done" /\ all_empty)
    => /\ attempt = max_attempts
       /\ user_query # 0 => searches = max_attempts
       /\ steps \cap {"select", "fetch", "evaluate", "answer"} = {}
       /\ terminal = "FALLBACK"
       /\ result # << >>

C5_Witness ==
    /\ pc = "done"
    /\ all_empty
    /\ user_query # 0
    /\ max_attempts >= 2
    /\ searches = max_attempts

\* C6: the string search_and_improve returns is never empty, whether it
\* comes from generate_final_answer or from synthesize_final_answer.
C6_NeverEmpty == pc = "done" => result # << >>

C6_Witness ==
    /\ pc = "done"
    /\ terminal = "FALLBACK"
    /\ result = FallbackApology
    /\ max_attempts > 0
    /\ user_query # 0

\* C7: no exception leaves search_and_improve: a step that raises inside
\* an attempt is followed by the head of the loop with the attempt counter
\* advanced by exactly one, and the request is always at one of its own
\* steps.
C7_ExceptionSafe ==
    [][/\ raised' => (pc' = "loop" /\ attempt' = attempt + 1)
       /\ pc' \in {"idle", "loop", "search", "searching", "select",
                   "select_try", "scrape", "evaluate", "answer", "fallback",
                   "done"}]_vars

C7_Witness ==
    /\ raised
    /\ pc = "loop"
    /\ "answer" \in steps

\* C8: when the search gives a successful response with at least two
\* results and every collaborator answers as the happy path asks, the
\* request ends in ANSWER in its first attempt.
C8_HappyPath ==
    (pc = "done" /\ happy /\ searches >= 1)
    => (terminal = "ANSWER" /\ attempt = 0)

C8_Witness ==
    /\ pc = "done"
    /\ happy
    /\ searches >= 1
    /\ terminal = "FALLBACK"
    /\ attempt = max_attempts

\* C9: after a decision token that is neither "answer" nor "refine" the
\* request generates the final answer and returns it in that attempt; it
\* does not start another attempt.
C9_FailOpen ==
    last_decision = "other"
    => \/ pc = "answer"
       \/ pc = "done" /\ terminal = "ANSWER"

C9_Witness ==
    /\ last_decision = "other"
    /\ raised
    /\ pc = "loop"
    /\ "answer" \in steps

\* C10: get_web_content is handed only urls for which can_fetch has just
\* returned true.
C10_RobotsApproved == \A f \in fetched : f.robots = "allow"

C10_Witness ==
    /\ pc = "scrape"
    /\ fetched # {}
    /\ urls # << >>

\* C11: _normalize_results raises for no provider id and no payload a
\* provider can hand back; it always returns a canonical response.
C11_NormalizeTotal == fn.op = "_normalize_results" => ~fn.raised

C11_Witness ==
    /\ fn.op = "_normalize_results"
    /\ fn.raised
    /\ fn.arg.raw = BadItemPayload
    /\ fn.arg.provider = "exa"

\* C12: normalizing a canonical response again with the same provider id
\* gives that canonical response back.
C12_Idempotent == fn.op = "normalize_twice" => fn.out.second = fn.out.first

C12_Witness ==
    /\ fn.op = "normalize_twice"
    /\ fn.arg.raw = TwoPayload
    /\ fn.out.first.success
    /\ fn.out.first.results # << >>
    /\ ~fn.out.second.success
    /\ fn.out.second.results = << >>

\* C13: with two callers in the rate-limit check of one engine, the
\* outbound searches issued within one window never exceed
\* requests_per_minute.
C13_CombinedBudget == admitted <= requests_per_minute

C13_Witness ==
    /\ admitted = requests_per_minute + 1
    /\ \A c \in Callers : callers[c].pc = "idle" /\ callers[c].slept = 0

\* C14: a caller that finds the request count at requests_per_minute or
\* above with the cooldown period not over sleeps for the rest of the
\* cooldown period, then sets the count to zero, and only after that
\* stamps, counts and issues its outbound search.
C14_CooldownThenReset ==
    [][\A c \in Callers :
          /\ (/\ callers[c].pc = "check"
              /\ callers'[c].pc # "check"
              /\ request_count >= requests_per_minute
              /\ callers[c].elapsed < cooldown_period)
             => /\ callers'[c].pc = "sleeping"
                /\ callers'[c].slept = cooldown_period - callers[c].elapsed
                /\ request_count' = request_count
          /\ (callers[c].pc = "sleeping" /\ callers'[c].pc # "sleeping")
             => (request_count' = 0 /\ callers'[c].pc = "stamp")
          /\ (callers[c].pc # "outbound" /\ callers'[c].pc = "outbound")
             => callers[c].pc = "write"
          /\ (callers[c].pc # "write" /\ callers'[c].pc = "write")
             => callers[c].pc = "stamp"]_vars

C14_Witness ==
    \E c \in Callers :
       /\ callers[c].pc = "stamp"
       /\ callers[c].slept = 30
       /\ request_count = 0

\* C15: when the current provider is configured and its call normalizes
\* to success, search() returns that response at once: it is the only
\* provider call of that search, no pause was taken and the current
\* provider is the one search() was entered with.
C15_CurrentSuccessReturns ==
    (calls # << >> /\ cp_entry \in providers /\ calls[1].ok)
    => /\ mpc = "returned"
       /\ Len(calls) = 1
       /\ calls[1].provider = cp_entry
       /\ pauses = << >>
       /\ current_provider = cp_entry
       /\ mres = _normalize_results(last_raw, cp_entry)
       /\ mres.success

C15_Witness ==
    /\ mpc = "returned"
    /\ cp_entry \in providers
    /\ Cardinality(providers) >= 2
    /\ Len(calls) = 1
    /\ calls[1].ok
    /\ mres.results # << >>

\* C16: in every search() the first provider called is the configured
\* default provider.
C16_DefaultFirst == calls # << >> => calls[1].provider = default_provider

C16_Witness ==
    /\ calls # << >>
    /\ cp_entry = default_provider
    /\ default_provider \notin providers
    /\ calls[1].provider = "exa"

\* C17: perform_search adds days = 1 for code d, 7 for w, 30 for m and 365
\* for y (the code read without regard to capitals), and no days parameter
\* for "none" and for every other code; the other search parameters are
\* the same for every code.
C17_TimeRange ==
    fn.op = "search_params"
    => /\ fn.arg \in {"d", "D"} => ("days" \in DOMAIN fn.out /\ fn.out.days = 1)
       /\ fn.arg \in {"w", "W"} => ("days" \in DOMAIN fn.out /\ fn.out.days = 7)
       /\ fn.arg = "m" => ("days" \in DOMAIN fn.out /\ fn.out.days = 30)
       /\ fn.arg = "y" => ("days" \in DOMAIN fn.out /\ fn.out.days = 365)
       /\ fn.arg \in {"none", "NONE", "x", ""} => "days" \notin DOMAIN fn.out
       /\ DOMAIN fn.out \ {"days"} = {"max_results", "min_relevance_score"}
       /\ fn.out.max_results = 10
       /\ fn.out.min_relevance_score = 6

C17_Witness ==
    /\ fn.op = "search_params"
    /\ fn.arg = "m"
    /\ DOMAIN fn.out = {"days", "max_results", "min_relevance_score"}

\* the numbers a text lists: each maximal run of digits read as a decimal
\* number (`run` is the value of the run being read, -1 outside a run)
RECURSIVE NumbersFrom(_, _, _)
NumbersFrom(text, k, run) ==
    IF k > Len(text)
    THEN IF run >= 0 THEN {run} ELSE {}
    ELSE IF text[k] \in Digits
    THEN NumbersFrom(text, k + 1,
                     (IF run >= 0 THEN run * 10 ELSE 0) + DigitValue(text[k]))
    ELSE (IF run >= 0 THEN {run} ELSE {}) \cup NumbersFrom(text, k + 1, -1)

ListedIndices(text) == NumbersFrom(text, 1, -1)

\* C18: when the gateway's answer lists one or two indices between 1 and
\* the number of results (two-digit indices included), the urls selected
\* are exactly those of the results with these indices.
C18_SelectsListed ==
    (/\ fn.op = "select"
     /\ ListedIndices(fn.arg.response_text) # {}
     /\ Cardinality(ListedIndices(fn.arg.response_text)) <= 2
     /\ \A i \in ListedIndices(fn.arg.response_text) : 1 <= i /\ i <= fn.arg.n)
    => /\ ~fn.raised
       /\ SeqRange(fn.out) = ListedIndices(fn.arg.response_text)
       /\ Len(fn.out) = Cardinality(ListedIndices(fn.arg.response_text))

C18_Witness ==
    /\ fn.op = "select"
    /\ fn.arg.n = 10
    /\ fn.arg.response_text = <<"1", "0", "a", "2">>
    /\ ~fn.raised
    /\ fn.out = <<10, 1, 2>>

\* the place of a provider in fallback_order
FallbackPosition(provider_name) ==
    CHOOSE i \in 1..Len(fallback_order) : fallback_order[i] = provider_name

\* the first call of this search() that the fallback loop made
FirstFallbackCall == IF cp_entry \in providers THEN 2 ELSE 1

\* C19: within one search() no provider is called twice and only
\* configured providers are called; after the current provider the others
\* are called in the order of fallback_order, none passed over, and no
\* call follows a success.
C19_OrderedOnce ==
    /\ \A i \in 1..Len(calls) : calls[i].provider \in providers
    /\ \A i, j \in 1..Len(calls) :
          i < j => calls[i].provider # calls[j].provider
    /\ (cp_entry \in providers /\ calls # << >>)
          => calls[1].provider = cp_entry
    /\ \A i, j \in FirstFallbackCall..Len(calls) :
          i < j => FallbackPosition(calls[i].provider)
                     < FallbackPosition(calls[j].provider)
    /\ \A i \in FirstFallbackCall..Len(calls) :
          \A provider_name \in providers :
             FallbackPosition(provider_name) < FallbackPosition(calls[i].provider)
             => \E j \in 1..Len(calls) : calls[j].provider = provider_name
    /\ \A i \in 1..Len(calls) : i < Len(calls) => ~calls[i].ok
    /\ (mpc = "returned" /\ AllFailed)
          => \A provider_name \in providers :
                \E j \in 1..Len(calls) : calls[j].provider = provider_name

C19_Witness ==
    /\ mpc = "returned"
    /\ cp_entry \in providers
    /\ Len(calls) >= 3
    /\ calls[1].provider = cp_entry
    /\ FallbackPosition(calls[2].provider) < FallbackPosition(cp_entry)
    /\ FallbackPosition(cp_entry) < FallbackPosition(calls[3].provider)
    /\ LastCall.ok

\* C20: under concurrent calls of search(), a success response a thread
\* returns carries the id of the provider whose search gave the results,
\* normalized as that provider's, and the providers a thread has recorded
\* as tried are providers whose search it called.
C20_ConsistentUnderRace ==
    \A t \in Threads :
       /\ (threads[t].pc = "done" /\ threads[t].out.success)
             => /\ threads[t].out.provider = threads[t].provider
                /\ threads[t].out =
                      _normalize_results(threads[t].raw, threads[t].provider)
       /\ threads[t].tried \subseteq SeqRange(threads[t].called)

C20_Witness ==
    \E t \in Threads :
       /\ threads[t].pc = "done"
       /\ threads[t].out.success
       /\ threads[t].called = <<"exa">>
       /\ threads[t].out.provider = "bing"

\* C21: a search() that has returned took one pause of cooldown_period
\* divided by the number of configured providers between every two
\* consecutive provider calls, also after a failed current provider, and
\* none after its last call.
C21_PauseBetweenCalls ==
    (mpc = "returned" /\ calls # << >>)
    => /\ Len(pauses) = Len(calls) - 1
       /\ \A i \in 1..Len(pauses) : pauses[i] = PauseLength(providers)

C21_Witness ==
    /\ mpc = "returned"
    /\ AllFailed
    /\ Len(calls) = 1
    /\ Len(pauses) = 1
    /\ pauses[1] = PauseLength(providers)

\* lines 69 and 77: the payload is no mapping, or a mapping with 'error'
BadPayload(raw) ==
    raw.kind = "nonmapping" \/ (raw.kind = "mapping" /\ raw.has_error)

\* C22: a payload that is no mapping, or a mapping with an error field,
\* normalizes for every provider id to success false, no results and that
\* provider's id; and when a provider hands such a payload to search(),
\* the call counts as failed, nothing is returned for it and search() goes
\* on with the fallback order.
C22_BadPayloadFails ==
    /\ [](\A raw \in RawPayloads, provider \in ProviderIds :
            BadPayload(raw)
            => /\ ~NormalizeRaises(raw, provider)
               /\ ~_normalize_results(raw, provider).success
               /\ _normalize_results(raw, provider).results = << >>
               /\ _normalize_results(raw, provider).provider = provider)
    /\ [][(calls' # calls /\ calls' # << >> /\ BadPayload(last_raw'))
          => /\ ~calls'[Len(calls')].ok
             /\ calls'[Len(calls')].provider \in tried_providers'
             /\ mpc' = "fallback"
             /\ mres' = mres]_vars

C22_Witness ==
    /\ mpc = "returned"
    /\ Len(calls) = 2
    /\ calls[1].provider = cp_entry
    /\ ~calls[1].ok
    /\ last_raw = ErrorPayload
    /\ AllFailed

\* the items a variant makes its results from
SourceItems(raw, provider) ==
    IF PassesThrough(raw, provider) THEN raw.items
    ELSE ComprehensionItems(raw, provider)

\* the backend's item carries the score the provider's variant reads
\* ('score' for tavily, 'relevance_score' for brave and exa; the bing and
\* duckduckgo variants read none)
SuppliesScore(r, provider) ==
    CASE provider = "tavily" -> "score" \in DOMAIN r
      [] provider \in {"brave", "exa"} -> "relevance_score" \in DOMAIN r
      [] OTHER -> FALSE

\* C23: in every provider variant, a result whose item came from the
\* backend with no relevance score has the score 1.0.
C23_DefaultScore ==
    (fn.op = "_normalize_results" /\ ~fn.raised /\ fn.out.success)
    => \A i \in 1..Len(fn.out.results) :
          ~SuppliesScore(SourceItems(fn.arg.raw, fn.arg.provider)[i],
                         fn.arg.provider)
          => /\ "score" \in DOMAIN fn.out.results[i]
             /\ fn.out.results[i].score = FixedScore

C23_Witness ==
    /\ fn.op = "_normalize_results"
    /\ fn.arg.provider = "brave"
    /\ fn.arg.raw = TwoPayload
    /\ ~fn.raised
    /\ fn.out.success
    /\ fn.out.results[2].score = 0

\* the fields of a result in the standard format
CanonicalFields == {"title", "url", "content", "score", "published_date"}

\* C24: in every success response of _normalize_results, for every
\* provider variant and payload, each result has exactly the fields title,
\* url, content, score, published_date, and a content of at most 500
\* characters.
C24_CanonicalResults ==
    (fn.op = "_normalize_results" /\ ~fn.raised /\ fn.out.success)
    => \A i \in 1..Len(fn.out.results) :
          /\ DOMAIN fn.out.results[i] = CanonicalFields
          /\ fn.out.results[i].content <= ContentLimit

C24_Witness ==
    /\ fn.op = "_normalize_results"
    /\ fn.arg.provider = "tavily"
    /\ fn.arg.raw = TwoPayload
    /\ fn.out.success
    /\ fn.out.results[1].content > ContentLimit
    /\ DOMAIN fn.out.results[2] = {"url"}

\* C25: a success response that search() returns has at most the requested
\* max_results results.
C25_AtMostMaxResults ==
    (fn.op = "search_response" /\ ~fn.raised /\ fn.out.success)
    => Len(fn.out.results) <= fn.arg.max_results

C25_Witness ==
    /\ fn.op = "search_response"
    /\ fn.arg.provider = "exa"
    /\ fn.arg.n = fn.arg.max_results + 1
    /\ fn.out.success
    /\ Len(fn.out.results) = fn.arg.max_results + 1

\* C26: an index parsed from the gateway's answer that is 0 or greater
\* than the number of results is discarded: the selection raises nothing
\* and holds exactly the urls of the parsed indices that are in range.
C26_OutOfRangeDiscarded ==
    fn.op = "select"
    => /\ ~fn.raised
       /\ SeqRange(fn.out) =
             {i \in ParsedResponse(fn.arg.response_text) :
                 1 <= i /\ i <= fn.arg.n}

C26_Witness ==
    /\ fn.op = "select"
    /\ fn.arg.n = 2
    /\ fn.arg.response_text = <<"1", "a", "3">>
    /\ fn.raised

\* C27: when every index parsed from the gateway's answers is in range,
\* select_relevant_pages calls the gateway at most 3 times, returns the
\* robots-allowed urls of the first try that has any, and when all 3 tries
\* have none returns the first 2 robots-allowed results in ranking order
\* (possibly none, which ends the attempt).
C27_SelectRetries ==
    (/\ fn.op = "select_relevant_pages"
     /\ \A k \in 1..select_max_retries :
           \A i \in ParsedResponse(fn.arg.texts[k]) : 1 <= i /\ i <= fn.arg.n)
    => LET items == ListResponse(fn.arg.n).results
           Try(k) == FilterSeq(SelectedUrls(items,
                                   ParsedResponse(fn.arg.texts[k])),
                               fn.arg.allowed)
           hits == {k \in 1..select_max_retries : Try(k) # << >>}
           first == CHOOSE k \in hits : \A j \in hits : k <= j
           ranked == FilterSeq(ItemUrls(items), fn.arg.allowed)
       IN /\ ~fn.raised
          /\ fn.out.calls <= select_max_retries
          /\ hits # {} => fn.out.urls = Try(first) /\ fn.out.calls = first
          /\ hits = {} => /\ fn.out.calls = select_max_retries
                          /\ fn.out.urls =
                               SubSeq(ranked, 1, Min(Len(ranked), FallbackUrls))

C27_Witness ==
    /\ fn.op = "select_relevant_pages"
    /\ fn.arg.nested
    /\ fn.arg.n = 2
    /\ fn.arg.allowed = {2}
    /\ \A k \in 1..select_max_retries : fn.arg.texts[k] = <<"1">>
    /\ fn.raised
    /\ fn.out.calls = select_max_retries

C29_StepOrder ==
    [][/\ (pc' = "search" /\ pc # "search") => pc = "loop"
       /\ (pc' = "searching" /\ pc # "searching") => pc = "search"
       /\ (pc' = "select" /\ pc # "select")
          => /\ pc = "searching"
             /\ mpc = "returned"
             /\ mres.success
             /\ mres.results # << >>
             /\ search_results' = mres
       /\ (pc' = "select_try" /\ pc # "select_try") => pc = "select"
       /\ (pc' = "scrape" /\ pc # "scrape")
          => pc = "select_try" /\ urls' # << >>
       /\ (pc' = "evaluate" /\ pc # "evaluate")
          => pc = "scrape" /\ urls = << >> /\ scraped_content # {}
       /\ (pc' = "answer" /\ pc # "answer") => pc = "evaluate"
       /\ (pc' \in {"search", "searching", "select", "select_try", "scrape",
                    "evaluate", "answer"})
          => attempt' = attempt]_vars

C29_Witness ==
    /\ pc = "answer"
    /\ attempt = 1
    /\ {"select", "fetch", "evaluate"} \subseteq steps
    /\ searches = 2
    /\ scraped_content # {}

\* C30: generate_final_answer calls the gateway at most 3 times; it
\* returns the first output that is not empty, and it returns the fixed
\* apology exactly when all 3 outputs were empty.
C30_AnswerRetries ==
    /\ [](pc = "answer" => retry <= answer_max_retries)
    /\ [][/\ (pc = "answer" /\ retry' # retry /\ pc' = "answer")
             => retry < answer_max_retries /\ retry' = retry + 1
          /\ (pc = "answer" /\ pc' = "done")
             => /\ terminal' = "ANSWER"
                /\ IF retry < answer_max_retries
                   THEN result' # << >> /\ result' # AnswerApology
                   ELSE result' = AnswerApology
          /\ (pc = "answer" /\ retry >= answer_max_retries)
             => pc' = "done"]_vars

C30_Witness ==
    /\ pc = "done"
    /\ terminal = "ANSWER"
    /\ result = AnswerApology
    /\ "evaluate" \in steps

\* C31: when the gateway raises during the generation of the final answer,
\* the call is tried again or the apology is returned; the request does
\* not go back to the head of the loop for another attempt.
C31_GenerationErrorDegrades ==
    [][(pc = "answer" /\ raised')
       => \/ pc' = "answer" /\ retry' = retry + 1 /\ attempt' = attempt
          \/ pc' = "done" /\ result' = AnswerApology]_vars

C31_Witness ==
    /\ pc = "loop"
    /\ raised
    /\ last_decision = "answer"
    /\ "answer" \in steps
    /\ attempt = 1
    /\ searches = 1

\* C32: FALLBACK is entered only from the head of the loop with the
\* attempts used up; it is one step with one call of the gateway, and it
\* returns the gateway's output when that is not empty and the fixed
\* apology when the call raises or gives an empty output.
C32_FallbackOnce ==
    /\ [](\A out \in AnswerOutcomes :
            SynthesizedAnswer(out) =
               IF out.raised \/ out.text = << >> THEN FallbackApology
               ELSE out.text)
    /\ [][/\ (pc' = "fallback" /\ pc # "fallback")
             => pc = "loop" /\ attempt >= max_attempts
          /\ pc = "fallback"
             => /\ "fallback" \notin steps
                /\ pc' = "done"
                /\ terminal' = "FALLBACK"
                /\ \E out \in AnswerOutcomes :
                      result' = SynthesizedAnswer(out)]_vars

C32_Witness ==
    /\ pc = "done"
    /\ terminal = "FALLBACK"
    /\ result # FallbackApology
    /\ result # << >>
    /\ max_attempts = MaxAttempts
    /\ attempt = max_attempts
    /\ searches = max_attempts

\* C33: with a single caller of perform_search, whatever time passes
\* between the calls, request_count never exceeds requests_per_minute.
C33_CountWithinLimit == request_count <= requests_per_minute

C33_Witness ==
    /\ request_count = requests_per_minute + 1
    /\ callers[1].pc = "idle"
    /\ callers[1].slept = 0
    /\ callers[2] = IdleCaller

\* C34: constructing a SearchManager never fails; a provider of
\* fallback_order whose lookup or construction raises, or which reports
\* that it is not configured, is left out and the loop goes on; the
\* providers kept are exactly those constructed and configured.
C34_InitializationSurvives ==
    fn.op = "initialize"
        => /\ ~fn.raised
           /\ fn.out = {p \in ProviderIds :
                           p \in FactoryProviders /\ fn.arg[p] = "ok"}
           /\ fn.out = _initialize_providers({p \in FactoryProviders : fn.arg[p] = "ok"})

C34_Witness ==
    /\ fn.op = "initialize"
    /\ fn.arg["exa"] = "raises"
    /\ fn.arg["bing"] = "unconfigured"
    /\ fn.arg["brave"] = "ok"
    /\ fn.arg["tavily"] = "raises"
    /\ fn.out = {"brave"}
    /\ ~fn.raised

\* C35: any two consecutive requests the arXiv provider issues are at
\* least 3 seconds apart, whether or not the earlier one failed.
C35_RequestsSpaced ==
    \A i \in 2..Len(arxiv.log) : arxiv.log[i].gap >= MinSpacing

C35_Witness ==
    /\ Len(arxiv.log) = 2
    /\ ~arxiv.log[1].ok
    /\ arxiv.log[2].gap = 0
    /\ arxiv.pc = "idle"

=============================================================================
